---- MODULE Spec2Model ----
(***************************************************************************)
(* A model of the Web NFC demo application (src/script.js): the scan       *)
(* session handlers and their UI state, the nfc.js operations (startScan,  *)
(* stopScan, writeNfc) and the utils.js codec (dataViewToHex,              *)
(* decodeRecord).                                                          *)
(*                                                                         *)
(* Conventions.  A JavaScript string is a sequence of code points          *)
(* (naturals); a byte view is a sequence of numbers in 0..255.  A value    *)
(* that may be null/undefined is None (the empty tuple) or Some(v) (a      *)
(* one-element tuple).  recordType values are only ever compared for       *)
(* equality and are TLA+ strings.                                          *)
(***************************************************************************)
EXTENDS Integers, Sequences, FiniteSets, TLC

VARIABLES
    hasNFC,            \* "NDEFReader" in window
    controller,        \* state.controller: 0 (null) or the id of a session
    sessions,          \* every AbortController/NDEFReader pair created so far
    btnStartDisabled,  \* ui.btnStart.disabled
    btnStopDisabled,   \* ui.btnStop.disabled
    status,            \* ui.status.textContent (by kind)
    events,            \* history: events the platform raised, in order
    calls,             \* history: invocations of onReading, in order
    consoleLog,        \* number of console.log lines of onreadingerror
    rec,               \* codec: the TagRecord handed to decodeRecord
    out,               \* codec: None, or Some(result of decodeRecord(rec))
    writeCalls,        \* messages handed to the platform's writer.write()
    writePending,      \* invocations of writeNfc awaiting writer.write()
    last               \* the operation that ran last, with its outcome

vars == <<hasNFC, controller, sessions, btnStartDisabled, btnStopDisabled,
          status, events, calls, consoleLog, rec, out, writeCalls,
          writePending, last>>

appVars == <<hasNFC, controller, sessions, btnStartDisabled, btnStopDisabled,
             status, events, calls, consoleLog>>

codecVars == <<rec, out>>

writeVars == <<writeCalls, writePending>>

-----------------------------------------------------------------------------
(* Bounds of the model.                                                    *)

MaxLen == 2

MaxRecords == 3

MaxSessions == 3

MaxEvents == 2

MaxWrites == 1

-----------------------------------------------------------------------------
(* Optional values and strings.                                            *)

None == <<>>

Some(v) == <<v>>

\* JavaScript truthiness of an optional string: present and not empty.
Truthy(o) == o # None /\ o[1] # <<>>

\* a || null, for an optional string a
OrNull(o) == IF Truthy(o) THEN o ELSE None

\* String.prototype.startsWith
StartsWith(s, prefix) ==
    /\ Len(s) >= Len(prefix)
    /\ SubSeq(s, 1, Len(prefix)) = prefix

\* "text/"
TextSlash == <<116, 101, 120, 116, 47>>

\* "[Hex] "
HexMarker == <<91, 72, 101, 120, 93, 32>>

\* "[Binary Data: "
BinaryPrefix == <<91, 66, 105, 110, 97, 114, 121, 32, 68, 97, 116, 97, 58, 32>>

\* " bytes]"
BinarySuffix == <<32, 98, 121, 116, 101, 115, 93>>

\* ":"
Colon == <<58>>

\* "0"
Zero == <<48>>

\* The code point of the digit d < 36 as Number.prototype.toString writes it:
\* "0".."9", then lower-case "a".."z".
DigitChar(d) == IF d < 10 THEN 48 + d ELSE 97 + (d - 10)

RECURSIVE NumberToString(_, _)
\* Number.prototype.toString(radix) of a natural number
NumberToString(n, radix) ==
    IF n < radix THEN <<DigitChar(n)>>
    ELSE Append(NumberToString(n \div radix, radix), DigitChar(n % radix))

RECURSIVE PadStart(_, _, _)
\* String.prototype.padStart with a one-character filler
PadStart(s, width, fill) ==
    IF Len(s) >= width THEN s ELSE PadStart(fill \o s, width, fill)

RECURSIVE Join(_, _)
\* Array.prototype.join
Join(parts, sep) ==
    IF Len(parts) = 0 THEN <<>>
    ELSE IF Len(parts) = 1 THEN parts[1]
    ELSE parts[1] \o sep \o Join(Tail(parts), sep)

\* String.prototype.toUpperCase on the characters a hex dump can hold
ToUpperCase(s) ==
    [i \in 1..Len(s) |-> IF s[i] >= 97 /\ s[i] <= 122 THEN s[i] - 32 ELSE s[i]]

-----------------------------------------------------------------------------
(* utils.js: the codec.                                                    *)

\* The replacement character U+FFFD and the byte order mark U+FEFF
Replacement == 65533

ByteOrderMark == 65279

\* new TextDecoder(): no options, so the decoder is not fatal
Fatal == FALSE

RECURSIVE Utf8Run(_, _, _, _, _, _, _, _)
\* The UTF-8 decoder of the Encoding standard, run over bytes b from index i.
\* cp, needed, seen, lower, upper are the decoder's state; acc is the output
\* so far, as [err, str]: err records that a malformed sequence was met.
Utf8Run(b, i, cp, needed, seen, lower, upper, acc) ==
    IF i > Len(b)
    THEN IF needed # 0
         THEN [err |-> TRUE, str |-> Append(acc.str, Replacement)]
         ELSE acc
    ELSE LET byte == b[i] IN
         IF needed = 0
         THEN IF byte <= 127
              THEN Utf8Run(b, i + 1, 0, 0, 0, 128, 191,
                           [acc EXCEPT !.str = Append(@, byte)])
              ELSE IF byte >= 194 /\ byte <= 223
              THEN Utf8Run(b, i + 1, byte % 32, 1, 0, 128, 191, acc)
              ELSE IF byte >= 224 /\ byte <= 239
              THEN Utf8Run(b, i + 1, byte % 16, 2, 0,
                           IF byte = 224 THEN 160 ELSE 128,
                           IF byte = 237 THEN 159 ELSE 191, acc)
              ELSE IF byte >= 240 /\ byte <= 244
              THEN Utf8Run(b, i + 1, byte % 8, 3, 0,
                           IF byte = 240 THEN 144 ELSE 128,
                           IF byte = 244 THEN 143 ELSE 191, acc)
              ELSE Utf8Run(b, i + 1, 0, 0, 0, 128, 191,
                           [err |-> TRUE, str |-> Append(acc.str, Replacement)])
         ELSE IF byte < lower \/ byte > upper
              \* malformed: emit U+FFFD and read this byte again as a lead byte
              THEN Utf8Run(b, i, 0, 0, 0, 128, 191,
                           [err |-> TRUE, str |-> Append(acc.str, Replacement)])
              ELSE IF seen + 1 = needed
              THEN Utf8Run(b, i + 1, 0, 0, 0, 128, 191,
                           [acc EXCEPT !.str = Append(@, cp * 64 + (byte % 64))])
              ELSE Utf8Run(b, i + 1, cp * 64 + (byte % 64), needed, seen + 1,
                           128, 191, acc)

\* TextDecoder.prototype.decode(view) for the decoder of decodeRecord:
\* [threw, str].  A decoder that is not fatal never throws; it leaves U+FFFD
\* in place of each malformed sequence.  A leading byte order mark is dropped.
decode(bytes) ==
    LET r == Utf8Run(bytes, 1, 0, 0, 0, 128, 191, [err |-> FALSE, str |-> <<>>])
        s == IF Len(r.str) > 0 /\ r.str[1] = ByteOrderMark
             THEN Tail(r.str) ELSE r.str
    IN  IF Fatal /\ r.err THEN [threw |-> TRUE, str |-> <<>>]
        ELSE [threw |-> FALSE, str |-> s]

\* One element of dataViewToHex's array: getUint8(i).toString(16).padStart(2,"0")
HexPair(byte) == PadStart(NumberToString(byte, 16), 2, Zero)

\* dataViewToHex without padStart
dataViewToHexUnpadded(view) ==
    ToUpperCase(Join([i \in 1..Len(view) |-> NumberToString(view[i], 16)],
                     Colon))

dataViewToHex(view) ==
    ToUpperCase(Join([i \in 1..Len(view) |-> HexPair(view[i])], Colon))

\* The condition of decodeRecord's inner if
IsTextLike(record) ==
    \/ record.recordType = "text"
    \/ record.recordType = "url"
    \/ (Truthy(record.mediaType) /\ StartsWith(record.mediaType[1], TextSlash))

\* "[Binary Data: N bytes]", the payload of decodeRecord's catch block
BinaryFallback(data) ==
    BinaryPrefix \o NumberToString(Len(data), 10) \o BinarySuffix

\* The payload decodeRecord computes: None when it stays undefined.  attempt
\* is the try block: it throws exactly when decoder.decode throws, as
\* dataViewToHex reads only bytes that the view holds.
decodePayload(record) ==
    IF record.data # None
    THEN LET data == record.data[1]
             attempt == IF IsTextLike(record)
                        THEN decode(data)
                        ELSE [threw |-> FALSE,
                              str |-> HexMarker \o dataViewToHex(data)]
         IN  IF attempt.threw
             THEN Some(BinaryFallback(data))
             ELSE Some(attempt.str)
    ELSE None

decodeRecord(record) ==
    [recordType |-> record.recordType,
     mediaType  |-> OrNull(record.mediaType),
     id         |-> OrNull(record.id),
     payload    |-> decodePayload(record)]

-----------------------------------------------------------------------------
(* The codec on its own: decodeRecord applied to one record of RecordSet.  *)

\* 'A', 0x0A, the two bytes of U+00E9, and 0xFF, which no UTF-8 text holds
ByteSample == {65, 10, 195, 169, 255}

RECURSIVE SeqsUpTo(_, _)
\* The sequences over S of length at most n
SeqsUpTo(S, n) ==
    IF n = 0 THEN {<<>>}
    ELSE LET shorter == SeqsUpTo(S, n - 1)
         IN  shorter \cup {Append(s, x) : s \in shorter, x \in S}

RecordTypes == {"text", "url", "mime", "unknown", "empty"}

\* absent, "", "text/plain", "text", "image/png"
MediaTypes ==
    {None, Some(<<>>),
     Some(<<116, 101, 120, 116, 47, 112, 108, 97, 105, 110>>),
     Some(<<116, 101, 120, 116>>),
     Some(<<105, 109, 97, 103, 101, 47, 112, 110, 103>>)}

\* absent, "", "1"
Ids == {None, Some(<<>>), Some(<<49>>)}

DataSet == {None} \cup {Some(b) : b \in SeqsUpTo(ByteSample, MaxLen)}

RecordSet ==
    [recordType : RecordTypes, mediaType : MediaTypes, id : Ids, data : DataSet]

-----------------------------------------------------------------------------
(* The platform: AbortController and NDEFReader.                           *)
(* A session is one AbortController with the NDEFReader that startScan     *)
(* made for its signal: scan is the state of the promise of ndef.scan(),   *)
(* aborted is signal.aborted, onreading/onreadingerror tell whether the    *)
(* reader's handlers are set.                                              *)

\* new AbortController() and new NDEFReader(), with ndef.scan({signal}) called
NewSession ==
    [scan |-> "pending", aborted |-> FALSE,
     onreading |-> FALSE, onreadingerror |-> FALSE]

\* controller.abort(): sets signal.aborted; a second call changes nothing
Abort(ss, c) == [ss EXCEPT ![c].aborted = TRUE]

\* The reader is scanning: scan() was accepted and its signal is not aborted.
\* Only then does the platform raise reading and readingerror events on it.
Active(ss, s) == ss[s].scan = "resolved" /\ ~ss[s].aborted

\* startScan after its await, when scan() resolved: both handlers are set
startScanResolved(ss, s) ==
    [ss EXCEPT ![s].scan = "resolved",
               ![s].onreadingerror = TRUE,
               ![s].onreading = TRUE]

\* startScan when scan() rejected: the await throws and nothing is set
startScanRejected(ss, s) == [ss EXCEPT ![s].scan = "rejected"]

\* The records of the sample tag: text, binary, text that is not ASCII, and
\* a record with no data
SampleRecords ==
    <<[recordType |-> "text", mediaType |-> None, id |-> None,
       data |-> Some(<<65>>)],
      [recordType |-> "mime",
       mediaType |-> Some(<<105, 109, 97, 103, 101, 47, 112, 110, 103>>),
       id |-> Some(<<49>>), data |-> Some(<<10, 255>>)],
      [recordType |-> "url", mediaType |-> None, id |-> None,
       data |-> Some(<<195, 169>>)],
      [recordType |-> "empty", mediaType |-> None, id |-> None,
       data |-> None]>>

\* The message of n records: the sample's records in order, again from the
\* first after the last
Message(n) ==
    [i \in 1..n |-> SampleRecords[((i - 1) % Len(SampleRecords)) + 1]]

\* The tags brought to the reader, with no record, one record and MaxRecords
\* records: tag n holds Message(n); the platform reports the serial number
\* "4" for the odd ones and "" for the even ones
Tag(n) ==
    [serialNumber |-> IF n % 2 = 1 THEN <<52>> ELSE <<>>,
     message |-> Message(n)]

TagSet == {Tag(n) : n \in {0, 1, MaxRecords}}

-----------------------------------------------------------------------------
(* ui.js                                                                   *)

\* ui.scannerAnimation is hidden exactly when btnStop is disabled
updateScanUI(isScanning) ==
    /\ btnStartDisabled' = isScanning
    /\ btnStopDisabled' = ~isScanning

setStatus(text) == status' = text

-----------------------------------------------------------------------------
(* script.js: the scan handlers.                                           *)

hasWebNFC == hasNFC

\* handleStartScan up to its await: the unsupported return, or the UI update,
\* the new controller and the call of startScan up to ndef.scan()
handleStartScan ==
    IF ~hasWebNFC
    THEN /\ setStatus("unsupported")
         /\ UNCHANGED <<hasNFC, controller, sessions, btnStartDisabled,
                        btnStopDisabled, events, calls, consoleLog>>
    ELSE /\ Len(sessions) < MaxSessions
         /\ updateScanUI(TRUE)
         /\ sessions' = Append(sessions, NewSession)
         /\ controller' = Len(sessions) + 1
         /\ UNCHANGED <<hasNFC, status, events, calls, consoleLog>>

\* handleStartScan after its await, scan() of session s having resolved
handleStartScanResolved(s) ==
    /\ sessions' = startScanResolved(sessions, s)
    /\ setStatus("scanning")
    /\ UNCHANGED <<hasNFC, controller, btnStartDisabled, btnStopDisabled,
                   events, calls, consoleLog>>

handleStartScanRejectedNoReset(s) ==
    /\ sessions' = startScanRejected(sessions, s)
    /\ setStatus("error")
    /\ UNCHANGED <<hasNFC, controller, btnStartDisabled, btnStopDisabled,
                   events, calls, consoleLog>>

\* handleStartScan's catch block, scan() of session s having rejected
handleStartScanRejected(s) ==
    /\ sessions' = startScanRejected(sessions, s)
    /\ setStatus("error")
    /\ updateScanUI(FALSE)
    /\ UNCHANGED <<hasNFC, controller, events, calls, consoleLog>>

handleStopScan ==
    /\ IF controller # 0
       THEN /\ sessions' = Abort(sessions, controller)
            /\ controller' = 0
       ELSE UNCHANGED <<sessions, controller>>
    /\ updateScanUI(FALSE)
    /\ setStatus("stopped")
    /\ UNCHANGED <<hasNFC, events, calls, consoleLog>>

\* The arguments startScan's onreading handler gives onReading for an event
\* of session s: the message with its records decoded, the serial number and
\* event.target?.tech, which an NDEFReader does not have
\* message.records.map(decodeRecord)
decodeRecords(records) ==
    [i \in 1..Len(records) |-> decodeRecord(records[i])]

onReadingArgsRaw(s, event) ==
    [session |-> s,
     records |-> event.message,
     serialNumber |-> event.serialNumber,
     tech |-> None]

onReadingArgs(s, event) ==
    [session |-> s,
     records |-> decodeRecords(event.message),
     serialNumber |-> event.serialNumber,
     tech |-> None]

\* ndef.onreading of session s, with the callback of handleStartScan: the
\* serial number and technology shown and the log card are those of the last
\* element of calls
onreading(s, event) ==
    /\ calls' = Append(calls, onReadingArgs(s, event))
    /\ setStatus("tagread")
    /\ UNCHANGED <<consoleLog, controller, sessions, btnStartDisabled,
                   btnStopDisabled>>

onreadingerrorFatal(s) ==
    /\ consoleLog' = consoleLog + 1
    /\ sessions' = Abort(sessions, s)
    /\ updateScanUI(FALSE)
    /\ setStatus("error")
    /\ UNCHANGED <<calls, controller>>

\* ndef.onreadingerror of session s
onreadingerror(s) ==
    /\ consoleLog' = consoleLog + 1
    /\ UNCHANGED <<calls, status, controller, sessions, btnStartDisabled,
                   btnStopDisabled>>

-----------------------------------------------------------------------------
(* The application: user events, page events and the platform's answers.   *)

AppInit ==
    /\ hasNFC \in BOOLEAN
    /\ controller = 0
    /\ sessions = <<>>
    /\ btnStartDisabled = ~hasNFC
    /\ btnStopDisabled \in BOOLEAN
    /\ status = "init"
    /\ events = <<>>
    /\ calls = <<>>
    /\ consoleLog = 0

Idle ==
    /\ rec = None
    /\ out = None
    /\ writeCalls = <<>>
    /\ writePending = {}
    /\ last = [op |-> "none"]

\* A click on Start: a disabled button raises no click event
StartClick == ~btnStartDisabled /\ handleStartScan

StopClick == ~btnStopDisabled /\ handleStopScan

Pagehide == handleStopScan

\* The platform accepts the scan request of session s
ScanResolve(s) ==
    /\ sessions[s].scan = "pending"
    /\ ~sessions[s].aborted
    /\ handleStartScanResolved(s)

\* The platform rejects the scan request of session s: permission denied, no
\* adapter, or the signal aborted while the request was pending
ScanReject(s) ==
    /\ sessions[s].scan = "pending"
    /\ handleStartScanRejected(s)

\* The platform raises a reading event on the reader of session s
ReadingEvent(s, tag) ==
    /\ Active(sessions, s)
    /\ Len(events) < MaxEvents
    /\ LET event == [kind |-> "reading", session |-> s,
                     message |-> tag.message,
                     serialNumber |-> tag.serialNumber]
       IN  /\ events' = Append(events, event)
           /\ IF sessions[s].onreading
              THEN onreading(s, event)
              ELSE UNCHANGED <<calls, status, consoleLog, controller,
                               sessions, btnStartDisabled, btnStopDisabled>>
    /\ UNCHANGED hasNFC

\* The platform raises a readingerror event on the reader of session s
ReadingErrorEvent(s) ==
    /\ Active(sessions, s)
    /\ Len(events) < MaxEvents
    /\ events' = Append(events, [kind |-> "readingerror", session |-> s])
    /\ IF sessions[s].onreadingerror
       THEN onreadingerror(s)
       ELSE UNCHANGED <<calls, status, consoleLog, controller, sessions,
                        btnStartDisabled, btnStopDisabled>>
    /\ UNCHANGED hasNFC

Init == AppInit /\ Idle

Next ==
    \/ StartClick /\ UNCHANGED <<codecVars, writeVars, last>>
    \/ StopClick /\ UNCHANGED <<codecVars, writeVars, last>>
    \/ Pagehide /\ UNCHANGED <<codecVars, writeVars, last>>
    \/ \E s \in DOMAIN sessions :
          ScanResolve(s) /\ UNCHANGED <<codecVars, writeVars, last>>
    \/ \E s \in DOMAIN sessions :
          ScanReject(s) /\ UNCHANGED <<codecVars, writeVars, last>>
    \/ \E s \in DOMAIN sessions, tag \in TagSet :
          ReadingEvent(s, tag) /\ UNCHANGED <<codecVars, writeVars, last>>
    \/ \E s \in DOMAIN sessions :
          ReadingErrorEvent(s) /\ UNCHANGED <<codecVars, writeVars, last>>

Spec == Init /\ [][Next]_vars

-----------------------------------------------------------------------------
(* Properties of the application (specification Spec).                     *)

\* The sessions the platform accepted and whose signal is not aborted
ActiveSessions == {s \in DOMAIN sessions : Active(sessions, s)}

\* The sessions that are pending or accepted, with a signal not aborted
LiveSessions ==
    {s \in DOMAIN sessions :
        sessions[s].scan \in {"pending", "resolved"} /\ ~sessions[s].aborted}

\* C1: at most one scan session is active at a time: the number of sessions
\* the platform accepted and whose signal is not aborted is 0 or 1.
C1_AtMostOneActive == Cardinality(ActiveSessions) <= 1

\* C2: after handleStopScan runs (Stop button or pagehide), every session
\* started earlier that is still pending or active has been aborted.
C2_StopAbortsAll ==
    [][(StopClick \/ Pagehide) =>
         \A s \in DOMAIN sessions' :
            sessions'[s].scan \in {"pending", "resolved"} =>
               sessions'[s].aborted]_vars

\* C10: whenever some session is pending or active with its signal not
\* aborted, the UI is in the scanning state (Start disabled, Stop enabled) and
\* state.controller holds that session's handle.
C10_UIReflectsSession ==
    \A s \in LiveSessions :
        /\ btnStartDisabled
        /\ ~btnStopDisabled
        /\ controller = s

\* The reading events among the first n events raised
ReadingsUpTo(n) ==
    SelectSeq(SubSeq(events, 1, n), LAMBDA e : e.kind = "reading")

\* C4: onReading is invoked exactly once for each reading event the platform
\* raises, in the order raised, and each invocation carries the decoded
\* records of that event's message, as many and in the same order.
C4_OneCallPerReading ==
    LET reads == ReadingsUpTo(Len(events))
    IN  /\ Len(calls) = Len(reads)
        /\ \A i \in 1..Len(reads) :
              /\ calls[i].session = reads[i].session
              /\ calls[i].serialNumber = reads[i].serialNumber
              /\ Len(calls[i].records) = Len(reads[i].message)
              /\ \A j \in 1..Len(reads[i].message) :
                    calls[i].records[j] = decodeRecord(reads[i].message[j])

\* Two tags were read, the first with one record and the second with three
C4_Witness ==
    /\ Len(calls) = 2
    /\ Len(calls[1].records) = 1
    /\ Len(calls[2].records) = 3
    /\ calls[2].records[3].payload = Some(<<233>>)

\* The step of a readingerror event leaves every session, the handle in
\* state.controller, the buttons and the calls of onReading as they were
ReadingErrorIsNonFatal ==
    (\E s \in DOMAIN sessions : ReadingErrorEvent(s)) =>
        /\ sessions' = sessions
        /\ controller' = controller
        /\ btnStartDisabled' = btnStartDisabled
        /\ btnStopDisabled' = btnStopDisabled
        /\ calls' = calls

\* Every reading event raised after a readingerror event of the same session
\* reached onReading
ReadingsAfterErrorsDelivered ==
    \A i \in 1..Len(events), j \in 1..Len(events) :
        (/\ i < j
         /\ events[i].kind = "readingerror"
         /\ events[j].kind = "reading"
         /\ events[j].session = events[i].session) =>
            LET k == Len(ReadingsUpTo(j))
            IN  /\ k <= Len(calls)
                /\ calls[k].session = events[j].session
                /\ Len(calls[k].records) = Len(events[j].message)

\* C5: a readingerror event during an active scan is not fatal: handling it
\* aborts nothing, unregisters nothing, does not invoke onReading and leaves
\* the session scanning, so reading events raised after it are delivered.
C5_ReadErrorNonFatal ==
    [][ReadingErrorIsNonFatal]_vars /\ []ReadingsAfterErrorsDelivered

\* A reading event was delivered after a readingerror event of its session
C5_Witness ==
    /\ consoleLog > 0
    /\ Len(events) = 2
    /\ events[1].kind = "readingerror"
    /\ events[2].kind = "reading"
    /\ events[2].session = events[1].session
    /\ Len(calls) = 1

\* The step in which the platform rejects the scan request of a session: no
\* handler is set, the error reaches handleStartScan's catch block and the UI
\* is left not scanning
RejectLeavesIdle ==
    \A s \in DOMAIN sessions :
        ScanReject(s) =>
            /\ sessions'[s].scan = "rejected"
            /\ ~sessions'[s].onreading
            /\ ~sessions'[s].onreadingerror
            /\ status' = "error"
            /\ ~btnStartDisabled'
            /\ btnStopDisabled'

\* No event is raised on, and onReading is never invoked for, a rejected attempt
NoCallForRejected ==
    /\ \A k \in 1..Len(calls) : sessions[calls[k].session].scan # "rejected"
    /\ \A k \in 1..Len(events) : sessions[events[k].session].scan # "rejected"
    /\ \A s \in DOMAIN sessions :
          sessions[s].scan = "rejected" =>
             ~sessions[s].onreading /\ ~sessions[s].onreadingerror

\* C6: if the platform rejects the scan request, startScan raises the error to
\* its caller, registers no handler, onReading is never invoked for that
\* attempt, and handleStartScan leaves the UI not scanning.
C6_RejectedScanStaysIdle ==
    [][RejectLeavesIdle]_vars /\ []NoCallForRejected

\* The platform rejected a scan request whose signal was never aborted
C6_Witness ==
    \E s \in DOMAIN sessions :
        /\ sessions[s].scan = "rejected"
        /\ ~sessions[s].aborted
        /\ status = "error"
        /\ ~btnStartDisabled

-----------------------------------------------------------------------------
(* The codec on its own (specification SpecCodec): decodeRecord applied to *)
(* one record of RecordSet.                                                *)

AppIdle ==
    /\ hasNFC = TRUE
    /\ controller = 0
    /\ sessions = <<>>
    /\ btnStartDisabled = FALSE
    /\ btnStopDisabled = TRUE
    /\ status = "init"
    /\ events = <<>>
    /\ calls = <<>>
    /\ consoleLog = 0

CodecInit ==
    /\ AppIdle
    /\ rec \in RecordSet
    /\ out = None
    /\ writeCalls = <<>>
    /\ writePending = {}
    /\ last = [op |-> "none"]

\* A call decodeRecord(rec): no statement outside its try block can throw for
\* a record, and its catch block reads only data.byteLength
Decode ==
    /\ out = None
    /\ out' = Some(decodeRecord(rec))
    /\ last' = [op |-> "decodeRecord", result |-> "returned"]
    /\ UNCHANGED <<appVars, rec, writeVars>>

CodecNext == Decode

SpecCodec == CodecInit /\ [][CodecNext]_vars

\* The bytes are well-formed UTF-8: the decoder meets no malformed sequence
ValidUtf8(bytes) ==
    ~Utf8Run(bytes, 1, 0, 0, 0, 128, 191, [err |-> FALSE, str |-> <<>>]).err

\* The record is text-like in the words of the specification
TextLike(record) ==
    \/ record.recordType \in {"text", "url"}
    \/ /\ record.mediaType # None
       /\ Len(record.mediaType[1]) >= 5
       /\ \A i \in 1..5 : record.mediaType[1][i] = TextSlash[i]

\* The decimal digits of n < 100
Decimal(n) == IF n < 10 THEN <<48 + n>> ELSE <<48 + (n \div 10), 48 + (n % 10)>>

\* C8: decodeRecord never raises, and for a text-like record whose data is
\* not valid UTF-8 the payload is "[Binary Data: N bytes]", N the byte length.
C8_InvalidTextFallsBack ==
    out # None =>
        /\ last.result = "returned"
        /\ (TextLike(rec) /\ rec.data # None /\ ~ValidUtf8(rec.data[1])) =>
              out[1].payload =
                 Some(BinaryPrefix \o Decimal(Len(rec.data[1])) \o BinarySuffix)

\* An upper-case hex digit
UpperDigit(d) == IF d < 10 THEN 48 + d ELSE 55 + d

\* h is the hex dump of bytes: upper-case two-digit pairs joined by colons
IsHexDumpOf(h, bytes) ==
    /\ Len(h) = IF Len(bytes) = 0 THEN 0 ELSE 3 * Len(bytes) - 1
    /\ \A i \in 1..Len(bytes) :
          /\ h[3 * i - 2] = UpperDigit(bytes[i] \div 16)
          /\ h[3 * i - 1] = UpperDigit(bytes[i] % 16)
          /\ i < Len(bytes) => h[3 * i] = 58

\* The payload is "[Hex] " followed by the hex dump of bytes
IsHexPayload(payload, bytes) ==
    /\ payload # None
    /\ Len(payload[1]) >= Len(HexMarker)
    /\ SubSeq(payload[1], 1, Len(HexMarker)) = HexMarker
    /\ IsHexDumpOf(SubSeq(payload[1], Len(HexMarker) + 1, Len(payload[1])), bytes)

\* C9 as stated: for every record that is not text-like, records with no
\* media type and records with no data included, the payload is "[Hex] "
\* followed by the hex dump of the record's data.
C9_HexForEveryNonText ==
    (out # None /\ ~TextLike(rec)) =>
        IsHexPayload(out[1].payload, IF rec.data = None THEN <<>> ELSE rec.data[1])

\* C9 as amended: for every record that is not text-like and has data, the
\* payload is "[Hex] " followed by the hex dump of the data; with no data the
\* payload stays undefined.
C9_HexForNonTextWithData ==
    (out # None /\ ~TextLike(rec)) =>
        IF rec.data = None
        THEN out[1].payload = None
        ELSE IsHexPayload(out[1].payload, rec.data[1])

\* A record that is not text-like, with no media type, was decoded: its two
\* bytes 0x0A 0xFF read "[Hex] 0A:FF"
C9_Witness ==
    /\ out # None
    /\ rec.recordType = "unknown"
    /\ rec.mediaType = None
    /\ rec.data = Some(<<10, 255>>)
    /\ out[1].payload = Some(<<91, 72, 101, 120, 93, 32, 48, 65, 58, 70, 70>>)

-----------------------------------------------------------------------------
(* nfc.js called by a caller of its own (specification SpecStop): the      *)
(* caller makes controllers, starts scans on their signals and calls       *)
(* stopScan with a controller or with null.                                *)

stopScanUnguarded(c) ==
    /\ sessions' = IF c # 0 THEN Abort(sessions, c) ELSE sessions
    /\ last' = [op |-> "stopScan", arg |-> c,
                result |-> IF c # 0 THEN "returned" ELSE "threw",
                repeat |-> last.op = "stopScan" /\ last.arg = c]

\* stopScan(controller), c = 0 standing for null; repeat tells that the call
\* before it was stopScan with the same argument
stopScan(c) ==
    /\ sessions' = IF c # 0 THEN Abort(sessions, c) ELSE sessions
    /\ last' = [op |-> "stopScan", arg |-> c, result |-> "returned",
                repeat |-> last.op = "stopScan" /\ last.arg = c]

StopInit == AppIdle /\ Idle

\* const c = new AbortController(); startScan(c.signal, onReading)
CallStartScan ==
    /\ Len(sessions) < MaxSessions
    /\ sessions' = Append(sessions, NewSession)
    /\ last' = [op |-> "startScan", arg |-> Len(sessions) + 1,
                result |-> "pending", repeat |-> FALSE]

\* The platform accepts the scan request of session s: startScan resolves
StartScanResolves(s) ==
    /\ sessions[s].scan = "pending"
    /\ ~sessions[s].aborted
    /\ sessions' = startScanResolved(sessions, s)
    /\ last' = [op |-> "startScan", arg |-> s, result |-> "resolved",
                repeat |-> FALSE]

\* The platform rejects the scan request of session s: startScan rejects
StartScanRejects(s) ==
    /\ sessions[s].scan = "pending"
    /\ sessions' = startScanRejected(sessions, s)
    /\ last' = [op |-> "startScan", arg |-> s, result |-> "rejected",
                repeat |-> FALSE]

CallStopScan(c) == stopScan(c)

StopFrame ==
    UNCHANGED <<hasNFC, controller, btnStartDisabled, btnStopDisabled, status,
                events, calls, consoleLog, codecVars, writeVars>>

StopNext ==
    \/ CallStartScan /\ StopFrame
    \/ \E s \in DOMAIN sessions : StartScanResolves(s) /\ StopFrame
    \/ \E s \in DOMAIN sessions : StartScanRejects(s) /\ StopFrame
    \/ \E c \in 0..Len(sessions) : CallStopScan(c) /\ StopFrame

SpecStop == StopInit /\ [][StopNext]_vars

\* A call of stopScan returns; with a handle it leaves that handle aborted,
\* its session not active and every other session as it was; with no handle,
\* or with a handle already aborted, it changes no session at all
StopScanStep ==
    \A c \in 0..Len(sessions) :
        (CallStopScan(c) /\ StopFrame) =>
            /\ last'.result = "returned"
            /\ c # 0 => sessions'[c].aborted /\ ~Active(sessions', c)
            /\ \A s \in DOMAIN sessions : s # c => sessions'[s] = sessions[s]
            /\ DOMAIN sessions' = DOMAIN sessions
            /\ (c = 0 \/ sessions[c].aborted) => sessions' = sessions

\* C7: stopScan is idempotent and never raises: with an absent handle, or
\* called again on the same handle, it completes without error and leaves the
\* session state as the first call left it (handle aborted, session not active).
C7_StopScanIdempotent == [][StopScanStep]_vars

\* stopScan was called a second time in a row on the handle of a session the
\* platform had accepted
C7_Witness ==
    /\ last.op = "stopScan"
    /\ last.repeat
    /\ last.arg # 0
    /\ sessions[last.arg].scan = "resolved"
    /\ sessions[last.arg].aborted

-----------------------------------------------------------------------------
(* Writing (specification SpecWrite): handleWrite on the form's values,    *)
(* and writeNfc called by a caller of its own.                             *)

\* TextEncoder.prototype.encode of one code point: its UTF-8 bytes (a lone
\* surrogate is written as U+FFFD)
EncodeCodePoint(c) ==
    LET cp == IF c >= 55296 /\ c <= 57343 THEN Replacement ELSE c
    IN  IF cp < 128 THEN <<cp>>
        ELSE IF cp < 2048
        THEN <<192 + (cp \div 64), 128 + (cp % 64)>>
        ELSE IF cp < 65536
        THEN <<224 + (cp \div 4096), 128 + ((cp \div 64) % 64), 128 + (cp % 64)>>
        ELSE <<240 + (cp \div 262144), 128 + ((cp \div 4096) % 64),
               128 + ((cp \div 64) % 64), 128 + (cp % 64)>>

RECURSIVE encode(_)
\* new TextEncoder().encode(string)
encode(str) ==
    IF str = <<>> THEN <<>> ELSE EncodeCodePoint(Head(str)) \o encode(Tail(str))

\* The white space String.prototype.trim removes, among the characters used
IsSpace(c) == c \in {9, 10, 13, 32}

RECURSIVE trim(_)
\* String.prototype.trim
trim(str) ==
    IF str = <<>> THEN str
    ELSE IF IsSpace(Head(str)) THEN trim(Tail(str))
    ELSE IF IsSpace(str[Len(str)]) THEN trim(SubSeq(str, 1, Len(str) - 1))
    ELSE str

\* The message writeNfc builds.  The data of a record is <<"bytes", b>> for a
\* byte array and <<"string", s>> for a string; a record without a mediaType
\* property has mediaType None, as has one whose mediaType is null.
writeNfcMessage(recordType, payload, mimeType) ==
    IF recordType = "mime"
    THEN <<[recordType |-> "mime", mediaType |-> mimeType,
            data |-> <<"bytes", encode(payload)>>]>>
    ELSE IF recordType = "unknown"
    THEN <<[recordType |-> recordType, mediaType |-> None,
            data |-> <<"bytes", encode(payload)>>]>>
    ELSE <<[recordType |-> recordType, mediaType |-> None,
            data |-> <<"string", payload>>]>>

\* writeNfc up to its await: the message is built and handed to
\* writer.write(), for the caller named
writeNfc(caller, recordType, payload, mimeType) ==
    /\ Len(writeCalls) < MaxWrites
    /\ writeCalls' =
          Append(writeCalls, writeNfcMessage(recordType, payload, mimeType))
    /\ writePending' =
          writePending \cup {[write |-> Len(writeCalls) + 1, caller |-> caller]}

handleWriteUnchecked(type, payload, rawMimeType) ==
    LET mimeType == Some(trim(rawMimeType))
    IN  /\ writeNfc("handleWrite", type, payload, mimeType)
        /\ last' = [op |-> "handleWrite", type |-> type,
                    mimeType |-> mimeType, result |-> "pending"]
        /\ UNCHANGED status

\* handleWrite up to its await, on the values of the form: the record type,
\* the payload and the text of the MIME type field
handleWrite(type, payload, rawMimeType) ==
    LET mimeType == Some(trim(rawMimeType))
    IN  IF type = "mime" /\ ~Truthy(mimeType)
        THEN /\ setStatus("warn")
             /\ last' = [op |-> "handleWrite", type |-> type,
                         mimeType |-> mimeType, result |-> "returned"]
             /\ UNCHANGED writeVars
        ELSE /\ writeNfc("handleWrite", type, payload, mimeType)
             /\ last' = [op |-> "handleWrite", type |-> type,
                         mimeType |-> mimeType, result |-> "pending"]
             /\ UNCHANGED status

\* writeNfc(recordType, payload, mimeType) called directly; mimeType None is
\* the default null of the parameter
CallWriteNfc(recordType, payload, mimeType) ==
    /\ writeNfc("writeNfc", recordType, payload, mimeType)
    /\ last' = [op |-> "writeNfc", type |-> recordType,
                mimeType |-> mimeType, result |-> "pending"]
    /\ UNCHANGED status

\* writer.write() of a pending invocation resolves: writeNfc returns the
\* message; handleWrite shows success (the card it logs is that message)
WriteResolves(w) ==
    /\ w \in writePending
    /\ writePending' = writePending \ {w}
    /\ IF w.caller = "handleWrite"
       THEN setStatus("ok")
       ELSE UNCHANGED status
    /\ last' = [op |-> w.caller, type |-> writeCalls[w.write][1].recordType,
                mimeType |-> writeCalls[w.write][1].mediaType,
                result |-> "resolved"]
    /\ UNCHANGED writeCalls

\* writer.write() of a pending invocation rejects with the platform's error:
\* writeNfc rejects with it; handleWrite's catch block shows it
WriteRejects(w) ==
    /\ w \in writePending
    /\ writePending' = writePending \ {w}
    /\ IF w.caller = "handleWrite"
       THEN setStatus("error")
       ELSE UNCHANGED status
    /\ last' = [op |-> w.caller, type |-> writeCalls[w.write][1].recordType,
                mimeType |-> writeCalls[w.write][1].mediaType,
                result |-> "WriteFailed"]
    /\ UNCHANGED writeCalls

\* ui.recordType's options
WriteTypes == {"text", "url", "mime", "unknown"}

\* "" and the one-character text U+00E9
PayloadSet == {<<>>, <<233>>}

\* The text of the MIME type field: "", " ", " a/b "
RawMimeTypes == {<<>>, <<32>>, <<32, 97, 47, 98, 32>>}

\* The mimeType a caller gives writeNfc: none, "", "a/b"
MimeTypeArgs == {None, Some(<<>>), Some(<<97, 47, 98>>)}

WriteInit == AppIdle /\ Idle

WriteFrame ==
    UNCHANGED <<hasNFC, controller, sessions, btnStartDisabled,
                btnStopDisabled, events, calls, consoleLog, codecVars>>

WriteNext ==
    \/ \E t \in WriteTypes, p \in PayloadSet, m \in RawMimeTypes :
          handleWrite(t, p, m) /\ WriteFrame
    \/ \E t \in WriteTypes, p \in PayloadSet, m \in MimeTypeArgs :
          CallWriteNfc(t, p, m) /\ WriteFrame
    \/ \E w \in writePending : WriteResolves(w) /\ WriteFrame
    \/ \E w \in writePending : WriteRejects(w) /\ WriteFrame

SpecWrite == WriteInit /\ [][WriteNext]_vars

HandleWriteRefusesEmptyMime ==
    \A p \in PayloadSet, m \in RawMimeTypes :
        (trim(m) = <<>> /\ handleWrite("mime", p, m) /\ WriteFrame) =>
            /\ writeCalls' = writeCalls
            /\ writePending' = writePending
            /\ status' = "warn"
            /\ last'.result = "returned"

\* writeNfc itself checks nothing: with "mime" and an empty or absent media
\* type it hands writer.write() one record with that media type
WriteNfcPassesEmptyMime ==
    \A p \in PayloadSet, m \in {None, Some(<<>>)} :
        (CallWriteNfc("mime", p, m) /\ WriteFrame) =>
            /\ Len(writeCalls') = Len(writeCalls) + 1
            /\ Len(writeCalls'[Len(writeCalls')]) = 1
            /\ writeCalls'[Len(writeCalls')][1].recordType = "mime"
            /\ writeCalls'[Len(writeCalls')][1].mediaType = m

====
